---- MODULE Spec2Model ----
(***************************************************************************)
(* Model of the Timpanogos horizon service.                                *)
(*                                                                         *)
(*   src/src/routes/timpanogos/api/+server.ts   the GET endpoint with its  *)
(*       single-flight cache (cachedGzip, generationPromise) and the      *)
(*       viewpoint / horizon pipeline;                                     *)
(*   src/scripts/generate-timpanogos.ts         the batch script holding   *)
(*       the same pipeline (lines 53-143 are identical).                   *)
(*                                                                         *)
(* Three specifications share the module:                                  *)
(*   Spec         the cache state machine driven by concurrent GETs;       *)
(*   FairSpec     Spec with the event loop's fairness (a settled promise   *)
(*                runs the continuations awaiting it);                     *)
(*   HorizonSpec  the pure horizon pipeline applied to every input of a    *)
(*                bounded grid.                                            *)
(*                                                                         *)
(* Angles are JavaScript numbers in the source.  The model keeps them in   *)
(* fixed point: an angle value v stands for v / Scale degrees, so that     *)
(* fractional bearings (and the difference between Math.floor and          *)
(* Math.round) are part of the model.                                      *)
(***************************************************************************)
EXTENDS Integers, Sequences, FiniteSets, TLC

VARIABLES
    cachedGzip,         \* +server.ts:156  Buffer | null
    generationPromise,  \* +server.ts:157  Promise<Buffer> | null (a promise id)
    promises,           \* the promises created by line 163, by id
    pc,                 \* per GET invocation: where the handler is
    awaits,             \* per GET invocation: what generateAllViewpoints returned
    result,             \* per GET invocation: how the handler ended
    loadCalls,          \* number of loadElevationData invocations (line 165)
    buildRuns,          \* number of times the loop of line 170 was entered
    hpc,                \* pipeline: "bearing" | "direction" | "horizonDone" | "normalizeDone" | "off"
    bearingToPeak,      \* pipeline input, fixed point (Scale units per degree)
    queries,            \* pipeline: the calculateHorizon calls made, in order
    horizon,            \* pipeline: result of calculateHorizonForViewpoint
    direction,          \* input of normalizeRelativeDirection (integer degrees)
    normalized          \* output of normalizeRelativeDirection

cacheVars == <<cachedGzip, generationPromise, promises, pc, awaits, result,
               loadCalls, buildRuns>>
pipeVars == <<hpc, bearingToPeak, queries, horizon, direction, normalized>>
vars == <<cachedGzip, generationPromise, promises, pc, awaits, result,
          loadCalls, buildRuns, hpc, bearingToPeak, queries, horizon,
          direction, normalized>>

(***************************************************************************)
(* Bounds of the model.                                                    *)
(***************************************************************************)
\* number of GET invocations in one process lifetime
NumRequests == 3
\* fixed-point resolution: angle values are multiples of 1/Scale degree
Scale == 4
\* normalizeRelativeDirection is applied to -MaxMagnitude..MaxMagnitude
MaxMagnitude == 720

(***************************************************************************)
(* Program constants.                                                      *)
(***************************************************************************)
HALF_FOV_DEGREES == 45
FULL_CIRCLE == 360
HALF_CIRCLE == 180
LAST_DIRECTION == 359
NUM_ANGLES == 360

(***************************************************************************)
(* JavaScript arithmetic on fixed-point values.                            *)
(***************************************************************************)
\* a % m of JavaScript: the remainder takes the sign of the dividend
JsRem(a, m) == IF a >= 0 THEN a % m ELSE -((-a) % m)

\* a whole number of degrees as a fixed-point value
Deg(d) == d * Scale

\* Math.floor of a fixed-point value, in whole degrees
MathFloor(v) == v \div Scale

\* Math.round of a fixed-point value: floor(v + 0.5), halves go up
MathRound(v) == (2 * v + Scale) \div (2 * Scale)

\* normalizeAngle: ((angle % 360) + 360) % 360
normalizeAngle(angle) ==
    JsRem(JsRem(angle, Deg(FULL_CIRCLE)) + Deg(FULL_CIRCLE), Deg(FULL_CIRCLE))

\* mutant: the `direction < -180` branch is missing
normalizeRelativeDirectionNoNegative(d) ==
    IF d > HALF_CIRCLE THEN d - FULL_CIRCLE ELSE d

\* normalizeRelativeDirection: one correction by 360 at most
normalizeRelativeDirection(d) ==
    IF d > HALF_CIRCLE THEN d - FULL_CIRCLE
    ELSE IF d < -HALF_CIRCLE THEN d + FULL_CIRCLE
    ELSE d

\* mutant: the bounds are rounded instead of floored
calculateDirectionRangeRounded(b) ==
    [start |-> MathRound(normalizeAngle(b - Deg(HALF_FOV_DEGREES))),
     end   |-> MathRound(normalizeAngle(b + Deg(HALF_FOV_DEGREES)))]

\* calculateDirectionRange
calculateDirectionRange(b) ==
    [start |-> MathFloor(normalizeAngle(b - Deg(HALF_FOV_DEGREES))),
     end   |-> MathFloor(normalizeAngle(b + Deg(HALF_FOV_DEGREES)))]

\* mutant: the wrap is never detected
rangeWrapsAroundNorthNever(range) == FALSE

\* rangeWrapsAroundNorth = range.start > range.end
rangeWrapsAroundNorth(range) == range.start > range.end

(***************************************************************************)
(* The elevation collaborator (package @bridgerb/horizon, outside the      *)
(* repository): one raw sample per integer direction of the inclusive      *)
(* range, in ascending order.  The payload of a sample is opaque to the    *)
(* pipeline; it is tagged with the direction it was measured in.           *)
(***************************************************************************)
RawHorizonPoint(d) ==
    [direction |-> d,
     elevationAngleDegrees |-> <<"elevation", d>>,
     distance_km |-> <<"distance", d>>]

calculateHorizon(startDir, endDir) ==
    [i \in 1..(endDir - startDir + 1) |-> RawHorizonPoint(startDir + i - 1)]

\* transformToRelativeDirection
transformToRelativeDirection(point, b) ==
    [relativeDirection |-> normalizeRelativeDirection(point.direction - MathRound(b)),
     elevationAngleDegrees |-> point.elevationAngleDegrees,
     distance_km |-> point.distance_km]

\* mutant: the comparator is pointB - pointA
compareDescending(pointA, pointB) == pointB.relativeDirection - pointA.relativeDirection

\* the comparator of line 134
compareRelativeDirection(pointA, pointB) == pointA.relativeDirection - pointB.relativeDirection

\* Array.prototype.sort with that comparator: a stable sort.  The element at
\* index i lands behind every element that compares lower and behind the
\* equal ones that precede it.
sortedPosition(points, i) ==
    1 + Cardinality({j \in 1..Len(points) :
                        \/ compareRelativeDirection(points[j], points[i]) < 0
                        \/ /\ compareRelativeDirection(points[j], points[i]) = 0
                           /\ j < i})

sortByComparator(points) ==
    LET position == SubSeq([i \in 1..Len(points) |-> sortedPosition(points, i)],
                           1, Len(points))
    IN  [k \in 1..Len(points) |-> points[CHOOSE i \in 1..Len(points) : position[i] = k]]

\* the calculateHorizon calls of lines 125-130, as <<startDir, endDir>> pairs
horizonQueries(b) ==
    LET range == calculateDirectionRange(b)
    IN  IF rangeWrapsAroundNorth(range)
        THEN << <<range.start, LAST_DIRECTION>>, <<0, range.end>> >>
        ELSE << <<range.start, range.end>> >>

RECURSIVE rawPointsOf(_)
rawPointsOf(qs) ==
    IF qs = <<>> THEN <<>>
    ELSE calculateHorizon(qs[1][1], qs[1][2]) \o rawPointsOf(Tail(qs))

\* calculateHorizonForViewpoint
calculateHorizonForViewpoint(b) ==
    LET rawPoints == rawPointsOf(horizonQueries(b))
        mapped == [i \in 1..Len(rawPoints) |-> transformToRelativeDirection(rawPoints[i], b)]
    IN  sortByComparator(mapped)

(***************************************************************************)
(* The pipeline applied to one input (HorizonSpec).                        *)
(***************************************************************************)
\* calculateBearing returns normalizeAngle(...): any value of [0, 360)
Bearings == 0..(Deg(FULL_CIRCLE) - 1)
Directions == (-MaxMagnitude)..MaxMagnitude

PipeOff ==
    /\ hpc = "off"
    /\ bearingToPeak = 0
    /\ queries = <<>>
    /\ horizon = <<>>
    /\ direction = 0
    /\ normalized = 0

\* calculateHorizonForViewpoint(elevation, viewpoint, bearingToPeak)
CallCalculateHorizonForViewpoint ==
    /\ hpc = "bearing"
    /\ queries' = horizonQueries(bearingToPeak)
    /\ horizon' = calculateHorizonForViewpoint(bearingToPeak)
    /\ hpc' = "horizonDone"
    /\ UNCHANGED <<bearingToPeak, direction, normalized>>
    /\ UNCHANGED cacheVars

\* normalizeRelativeDirection(direction)
CallNormalizeRelativeDirection ==
    /\ hpc = "direction"
    /\ normalized' = normalizeRelativeDirection(direction)
    /\ hpc' = "normalizeDone"
    /\ UNCHANGED <<bearingToPeak, direction, queries, horizon>>
    /\ UNCHANGED cacheVars

(***************************************************************************)
(* The dataset and its artifact.                                           *)
(***************************************************************************)
Angles == 0..(NUM_ANGLES - 1)
NoThrow == -1

\* generateViewpoint, reduced to the field the cache's clients index by.  The
\* coordinate, bearingToPeak and horizon are floating-point results of the
\* angle alone; the horizon is studied for every bearing in HorizonSpec.
generateViewpoint(angle) == [angle |-> angle]

\* The loop of lines 168-173, started at angle `first`.  throwsAt is the angle
\* at which the collaborator throws (NoThrow: it never does); a throw leaves
\* the loop at once, with the viewpoints pushed so far.  The loop pushes the
\* viewpoints of first, first + 1, ... in that order.
buildLoop(first, throwsAt) ==
    LET thrown == throwsAt >= first /\ throwsAt < NUM_ANGLES
        stop == IF thrown THEN throwsAt ELSE NUM_ANGLES
    IN  [completed |-> ~thrown,
         viewpoints |-> [i \in 1..(stop - first) |-> generateViewpoint(first + i - 1)]]

\* mutant: the loop starts at angle 1
buildAllViewpointsFromOne(throwsAt) == buildLoop(1, throwsAt)

\* const viewpoints = []; for (let angle = 0; angle < 360; angle++)
buildAllViewpoints(throwsAt) == buildLoop(0, throwsAt)

\* A Buffer: an object with an identity (id: the promise whose run allocated
\* it) holding the gzip of a JSON text.
NoBuffer == [id |-> 0, encoding |-> "none", json |-> <<>>]

\* compressToGzip: gzipSync(JSON.stringify(viewpoints)), a new Buffer
compressToGzip(viewpoints, id) == [id |-> id, encoding |-> "gzip", json |-> viewpoints]

\* what a client gets back from the artifact: gunzip, then JSON.parse
decodeArtifact(buffer) == IF buffer.encoding = "gzip" THEN buffer.json ELSE <<>>

(***************************************************************************)
(* The single-flight cache and the GET handler (Spec).                     *)
(***************************************************************************)
Requests == 1..NumRequests
NoPromise == 0
PromiseIds == 1..Len(promises)

PendingPromise ==
    [state |-> "pending", value |-> NoBuffer, error |-> "none", generated |-> 0]

NoAwait == [kind |-> "none", value |-> NoBuffer, promise |-> NoPromise]
NoResult == [status |-> 0, gzippedData |-> NoBuffer, error |-> "none"]

CacheInit ==
    /\ cachedGzip = NoBuffer
    /\ generationPromise = NoPromise
    /\ promises = <<>>
    /\ pc = [r \in Requests |-> "idle"]
    /\ awaits = [r \in Requests |-> NoAwait]
    /\ result = [r \in Requests |-> NoResult]
    /\ loadCalls = 0
    /\ buildRuns = 0

\* line 160: if (cachedGzip)
hasCachedGzip == cachedGzip # NoBuffer

\* mutant: the in-flight check of line 161 is missing
hasGenerationPromiseNever == FALSE

\* line 161: if (generationPromise)
hasGenerationPromise == generationPromise # NoPromise

\* mutant: a copy of the cached buffer is returned
cachedResultCopy == [cachedGzip EXCEPT !.id = Len(promises) + 1]

\* line 160: return cachedGzip
cachedResult == cachedGzip

\* GET calls generateAllViewpoints (lines 159-180, 183) and suspends at its
\* await.  The call is synchronous up to the await of line 165: the checks,
\* the assignment of generationPromise and the call of loadElevationData
\* happen in one step.
Get(r) ==
    /\ pc[r] = "idle"
    /\ pc' = [pc EXCEPT ![r] = "awaiting"]
    /\ IF hasCachedGzip
       THEN /\ awaits' = [awaits EXCEPT ![r] =
                            [kind |-> "value", value |-> cachedResult, promise |-> NoPromise]]
            /\ UNCHANGED <<generationPromise, promises, loadCalls>>
       ELSE IF hasGenerationPromise
       THEN /\ awaits' = [awaits EXCEPT ![r] =
                            [kind |-> "promise", value |-> NoBuffer,
                             promise |-> generationPromise]]
            /\ UNCHANGED <<generationPromise, promises, loadCalls>>
       ELSE /\ promises' = Append(promises, PendingPromise)
            /\ generationPromise' = Len(promises) + 1
            /\ loadCalls' = loadCalls + 1
            /\ awaits' = [awaits EXCEPT ![r] =
                            [kind |-> "promise", value |-> NoBuffer,
                             promise |-> Len(promises) + 1]]
    /\ UNCHANGED <<cachedGzip, result, buildRuns>>
    /\ UNCHANGED pipeVars

\* loadElevationData rejects: the async function of line 163 rejects.
LoadRejects(p) ==
    /\ promises[p].state = "pending"
    /\ promises' = [promises EXCEPT ![p] =
                      [@ EXCEPT !.state = "rejected", !.error = "DataLoadError"]]
    /\ UNCHANGED <<cachedGzip, generationPromise, pc, awaits, result, loadCalls, buildRuns>>
    /\ UNCHANGED pipeVars

\* loadElevationData resolves and the collaborator throws during the loop.
BuildThrows(p) ==
    /\ promises[p].state = "pending"
    /\ \E throwsAt \in Angles :
          LET built == buildAllViewpoints(throwsAt)
          IN  promises' = [promises EXCEPT ![p] =
                             [@ EXCEPT !.state = "rejected", !.error = "QueryError",
                                       !.generated = Len(built.viewpoints)]]
    /\ buildRuns' = buildRuns + 1
    /\ UNCHANGED <<cachedGzip, generationPromise, pc, awaits, result, loadCalls>>
    /\ UNCHANGED pipeVars

\* loadElevationData resolves, the loop completes and compressToGzip throws.
CompressThrows(p) ==
    /\ promises[p].state = "pending"
    /\ LET built == buildAllViewpoints(NoThrow)
       IN  promises' = [promises EXCEPT ![p] =
                          [@ EXCEPT !.state = "rejected", !.error = "SerializationError",
                                    !.generated = Len(built.viewpoints)]]
    /\ buildRuns' = buildRuns + 1
    /\ UNCHANGED <<cachedGzip, generationPromise, pc, awaits, result, loadCalls>>
    /\ UNCHANGED pipeVars

\* loadElevationData resolves and lines 166-176 run to the end.
BuildSucceeds(p) ==
    /\ promises[p].state = "pending"
    /\ LET built == buildAllViewpoints(NoThrow)
           gzipped == compressToGzip(built.viewpoints, p)
       IN  /\ cachedGzip' = gzipped
           /\ promises' = [promises EXCEPT ![p] =
                             [@ EXCEPT !.state = "fulfilled", !.value = gzipped,
                                       !.generated = Len(built.viewpoints)]]
    /\ buildRuns' = buildRuns + 1
    /\ UNCHANGED <<generationPromise, pc, awaits, result, loadCalls>>
    /\ UNCHANGED pipeVars

\* mutant: a rejection is swallowed and the handler answers as if it had data
settledOutcomeSwallowed(promise) ==
    [status |-> 200, gzippedData |-> promise.value, error |-> "none"]

\* `await generateAllViewpoints()` on a settled promise, and what GET makes of
\* it: a 200 response carrying the buffer's bytes, or the rejection (which
\* the framework turns into a server error).
settledOutcome(promise) ==
    IF promise.state = "fulfilled"
    THEN [status |-> 200, gzippedData |-> promise.value, error |-> "none"]
    ELSE [status |-> 500, gzippedData |-> NoBuffer, error |-> promise.error]

\* GET resumes: generateAllViewpoints had returned the cached buffer.
RespondCached(r) ==
    /\ pc[r] = "awaiting"
    /\ awaits[r].kind = "value"
    /\ result' = [result EXCEPT ![r] =
                    [status |-> 200, gzippedData |-> awaits[r].value, error |-> "none"]]
    /\ pc' = [pc EXCEPT ![r] = "responded"]
    /\ UNCHANGED <<cachedGzip, generationPromise, promises, awaits, loadCalls, buildRuns>>
    /\ UNCHANGED pipeVars

\* GET resumes: the promise it awaits has settled.
RespondSettled(r) ==
    /\ pc[r] = "awaiting"
    /\ awaits[r].kind = "promise"
    /\ promises[awaits[r].promise].state # "pending"
    /\ result' = [result EXCEPT ![r] = settledOutcome(promises[awaits[r].promise])]
    /\ pc' = [pc EXCEPT ![r] = "responded"]
    /\ UNCHANGED <<cachedGzip, generationPromise, promises, awaits, loadCalls, buildRuns>>
    /\ UNCHANGED pipeVars

Init == CacheInit /\ PipeOff

Next ==
    \/ \E r \in Requests : Get(r)
    \/ \E p \in PromiseIds : LoadRejects(p)
    \/ \E p \in PromiseIds : BuildThrows(p)
    \/ \E p \in PromiseIds : CompressThrows(p)
    \/ \E p \in PromiseIds : BuildSucceeds(p)
    \/ \E r \in Requests : RespondCached(r)
    \/ \E r \in Requests : RespondSettled(r)

Spec == Init /\ [][Next]_vars

\* The event loop runs the continuation of every await whose promise has
\* settled.  Nothing makes loadElevationData settle, so it gets no fairness.
FairSpec ==
    /\ Spec
    /\ \A r \in Requests : WF_vars(RespondCached(r))
    /\ \A r \in Requests : WF_vars(RespondSettled(r))

HorizonInit ==
    /\ CacheInit
    /\ queries = <<>>
    /\ horizon = <<>>
    /\ normalized = 0
    /\ \/ hpc = "bearing" /\ bearingToPeak \in Bearings /\ direction = 0
       \/ hpc = "direction" /\ direction \in Directions /\ bearingToPeak = 0

HorizonNext ==
    \/ CallCalculateHorizonForViewpoint
    \/ CallNormalizeRelativeDirection

HorizonSpec == HorizonInit /\ [][HorizonNext]_vars

(***************************************************************************)
(* Properties of the cache (Spec, FairSpec).                               *)
(***************************************************************************)
Awaiting(r) == pc[r] = "awaiting"
Joined(r) == awaits[r].kind = "promise"
AwaitedPromise(r) == promises[awaits[r].promise]

\* C1: single-flight.  Whatever the interleaving of GET calls with the
\* settling of the load, loadElevationData is invoked at most once and the
\* viewpoint loop is entered at most once in a process lifetime, and every
\* call that did not find the artifact waits on the one computation there is.
C1_SingleFlight ==
    /\ loadCalls <= 1
    /\ buildRuns <= 1
    /\ Len(promises) <= 1
    /\ \A r \in Requests : Joined(r) => awaits[r].promise = generationPromise

\* Two calls overlap on the pending computation and a later call arrives
\* after it has completed.
C1_Witness ==
    /\ loadCalls = 1
    /\ buildRuns = 1
    /\ \E r1, r2, r3 \in Requests :
          /\ r1 # r2
          /\ Joined(r1) /\ Joined(r2)
          /\ awaits[r3].kind = "value"

\* C2: failure recovery.  After a failed computation the cache is Empty again:
\* the computation it retains, if any, is not a failed one.
C2_FailureReturnsToEmpty ==
    generationPromise # NoPromise => promises[generationPromise].state # "rejected"

\* C3: one artifact.  Every call that resolves, resolves to the retained
\* buffer itself (same object), and once cachedGzip is set it is neither
\* cleared nor replaced.
C3_OneArtifact ==
    /\ [](\A r \in Requests :
            result[r].status = 200 =>
                /\ cachedGzip # NoBuffer
                /\ result[r].gzippedData = cachedGzip)
    /\ [][cachedGzip # NoBuffer => cachedGzip' = cachedGzip]_vars

\* A call that joined the pending computation and a call made after it was
\* cached have both been answered.
C3_Witness ==
    \E r1, r2 \in Requests :
        /\ Joined(r1) /\ result[r1].status = 200
        /\ awaits[r2].kind = "value" /\ result[r2].status = 200

\* C4: a failure reaches every waiter.  A call that started or joined a
\* computation that failed never ends with an artifact: it ends with the
\* computation's error; and once the computation has failed, each of its
\* waiters does end.
C4_FailureObserved ==
    /\ [](\A r \in Requests :
            (pc[r] = "responded" /\ Joined(r) /\ AwaitedPromise(r).state = "rejected") =>
                /\ result[r].status = 500
                /\ result[r].gzippedData = NoBuffer
                /\ result[r].error = AwaitedPromise(r).error)
    /\ \A r \in Requests :
          (Awaiting(r) /\ Joined(r) /\ AwaitedPromise(r).state = "rejected")
              ~> (pc[r] = "responded")

\* The computation failed with two calls waiting on it, and both were answered.
C4_Witness ==
    \E r1, r2 \in Requests :
        /\ r1 # r2
        /\ Joined(r1) /\ Joined(r2)
        /\ AwaitedPromise(r1).state = "rejected"
        /\ result[r1].status = 500 /\ result[r2].status = 500

\* the buffers the cache holds or has handed to a caller
ExposedBuffers ==
    ({cachedGzip} \cup {result[r].gzippedData : r \in Requests}
                  \cup {awaits[r].value : r \in Requests}
                  \cup {promises[p].value : p \in PromiseIds}) \ {NoBuffer}

\* C5: no partial dataset.  Every artifact retained or handed out decodes to
\* exactly 360 viewpoints, the one at index i having angle i, and it was
\* produced by a run of the loop that generated all 360 of them.
C5_NoPartialDataset ==
    \A buffer \in ExposedBuffers :
        LET dataset == decodeArtifact(buffer)
        IN  /\ Len(dataset) = NUM_ANGLES
            /\ \A angle \in Angles : dataset[angle + 1].angle = angle
            /\ promises[buffer.id].generated = NUM_ANGLES

\* The artifact is retained and a caller has received it.
C5_Witness ==
    /\ cachedGzip # NoBuffer
    /\ \E r \in Requests : result[r].status = 200 /\ result[r].gzippedData = cachedGzip

(***************************************************************************)
(* Properties of the pipeline (HorizonSpec).                               *)
(***************************************************************************)
HorizonDone == hpc = "horizonDone"

\* the integer n with n <= v / Scale < n + 1
FloorOf(v) == CHOOSE n \in -1..FULL_CIRCLE : n * Scale <= v /\ v < (n + 1) * Scale

\* the window the planner is to produce: floor of (b -+ 45) modulo 360
WindowStart == FloorOf((bearingToPeak - HALF_FOV_DEGREES * Scale) % (FULL_CIRCLE * Scale))
WindowEnd == FloorOf((bearingToPeak + HALF_FOV_DEGREES * Scale) % (FULL_CIRCLE * Scale))
WindowDirections ==
    IF WindowStart > WindowEnd
    THEN (WindowStart..LAST_DIRECTION) \cup (0..WindowEnd)
    ELSE WindowStart..WindowEnd

\* C6: the horizon is sorted strictly ascending by relativeDirection, so no
\* two samples of a viewpoint share a relativeDirection.
C6_StrictlyAscending ==
    HorizonDone =>
        \A i \in 1..(Len(horizon) - 1) :
            horizon[i].relativeDirection < horizon[i + 1].relativeDirection

\* A fractional bearing whose window wraps through north.
C6_Witness ==
    /\ HorizonDone
    /\ bearingToPeak % Scale # 0
    /\ Len(queries) = 2
    /\ Len(horizon) > 1

\* C7: wraparound.  When start > end the queries are [start,359] and [0,end],
\* otherwise the single query [start,end]; and the horizon holds the sample of
\* every direction of the window exactly once and nothing else.  Bearing 10
\* gives 325/55, bearing 0 gives 315/45, bearing 90 gives 45/135.
C7_Wraparound ==
    HorizonDone =>
        /\ queries = IF WindowStart > WindowEnd
                     THEN << <<WindowStart, LAST_DIRECTION>>, <<0, WindowEnd>> >>
                     ELSE << <<WindowStart, WindowEnd>> >>
        /\ Len(horizon) = Cardinality(WindowDirections)
        /\ \A d \in WindowDirections :
              Cardinality({i \in 1..Len(horizon) :
                              horizon[i].elevationAngleDegrees = <<"elevation", d>>}) = 1
        /\ bearingToPeak = 10 * Scale => queries = << <<325, 359>>, <<0, 55>> >>
        /\ bearingToPeak = 0 => queries = << <<315, 359>>, <<0, 45>> >>
        /\ bearingToPeak = 90 * Scale => queries = << <<45, 135>> >>

\* Bearing 10: the window 325..359, 0..55 of 91 directions.
C7_Witness ==
    /\ HorizonDone
    /\ bearingToPeak = 10 * Scale
    /\ Len(queries) = 2
    /\ Len(horizon) = 91

\* C8: field of view.  Every sample's relativeDirection lies in [-45, +45].
C8_FieldOfView ==
    HorizonDone =>
        \A i \in 1..Len(horizon) :
            /\ horizon[i].relativeDirection >= -HALF_FOV_DEGREES
            /\ horizon[i].relativeDirection <= HALF_FOV_DEGREES

NormalizeDone == hpc = "normalizeDone"
InRelativeRange(d) == d >= -HALF_CIRCLE /\ d <= HALF_CIRCLE

\* C9 as stated: every input, of any magnitude, is mapped to the value of
\* [-180, 180] congruent to it modulo 360.
C9_TrueModulo ==
    NormalizeDone =>
        /\ InRelativeRange(normalized)
        /\ (normalized - direction) % FULL_CIRCLE = 0

\* the inputs one correction by 360 brings into [-180, 180]
SingleCorrectionReach == FULL_CIRCLE + HALF_CIRCLE

\* C9 as amended: every input x with -540 <= x <= 540 is mapped to a value of
\* [-180, 180] congruent to x modulo 360, and every relativeDirection stored
\* in a horizon sample is an integer of [-180, 180].
C9_SingleCorrection ==
    /\ (NormalizeDone /\ direction >= -SingleCorrectionReach
                      /\ direction <= SingleCorrectionReach) =>
           /\ InRelativeRange(normalized)
           /\ (normalized - direction) % FULL_CIRCLE = 0
    /\ HorizonDone =>
           \A i \in 1..Len(horizon) :
               /\ horizon[i].relativeDirection \in Int
               /\ InRelativeRange(horizon[i].relativeDirection)

\* A negative input at the edge of the domain was corrected upwards.
C9_Witness ==
    /\ NormalizeDone
    /\ direction = -SingleCorrectionReach
    /\ normalized = -HALF_CIRCLE

\* C10: every query sent to the collaborator has integer bounds with
\* 0 <= startDir <= endDir <= 359.
C10_WellFormedQueries ==
    HorizonDone =>
        /\ Len(queries) >= 1
        /\ \A k \in 1..Len(queries) :
              /\ queries[k][1] \in Int /\ queries[k][2] \in Int
              /\ 0 <= queries[k][1]
              /\ queries[k][1] <= queries[k][2]
              /\ queries[k][2] <= LAST_DIRECTION

\* The boundary bearing 315, whose window ends exactly at north.
C10_Witness ==
    /\ HorizonDone
    /\ bearingToPeak = 315 * Scale
    /\ queries = << <<270, 359>>, <<0, 0>> >>

====
